---- MODULE Spec2Model ----
(***************************************************************************)
(* A model of the UtiliHive collector, monitoring_data_scrap.py: token     *)
(* loading, generation of the hourly windows, the fetch / flatten / append *)
(* loop of main(), the daily aggregation and the run summary.              *)
(***************************************************************************)
EXTENDS Integers, Sequences, FiniteSets, TLC

(***************************************************************************)
(* Program constants                                                       *)
(***************************************************************************)
DAYS_BACK == 2

TIMEZONE_OFFSET_HOURS == 1

HoursPerDay == 24

\* REQUEST_DELAY_SECONDS = 0.1, in microseconds
REQUEST_DELAY_MICROSECONDS == 100000

(***************************************************************************)
(* Bounds of the model                                                     *)
(***************************************************************************)
\* calendar days an explicit START_DATE / END_DATE may name: 0..MaxDay
MaxDay == 1

\* windows of one run the remote API answers with a non-empty payload
MaxAnswers == 2

\* I/O errors the file system raises during the appends of one run
MaxIOErrors == 1

(***************************************************************************)
(* datetime: a naive datetime is a record of its fields; day is the        *)
(* ordinal of the calendar day (day 0 is 2024-01-01).                      *)
(***************************************************************************)
DT(d, h, mi, s, us) ==
    [day |-> d, hour |-> h, minute |-> mi, second |-> s, microsecond |-> us]

Midnight(d) == DT(d, 0, 0, 0, 0)

\* datetime.__le__ : lexicographic on the fields
DtLE(a, b) ==
    \/ a.day < b.day
    \/ /\ a.day = b.day
       /\ \/ a.hour < b.hour
          \/ /\ a.hour = b.hour
             /\ \/ a.minute < b.minute
                \/ /\ a.minute = b.minute
                   /\ \/ a.second < b.second
                      \/ /\ a.second = b.second
                         /\ a.microsecond <= b.microsecond

\* dt + timedelta(hours=h), h may be negative
AddHours(dt, h) ==
    LET total == dt.day * HoursPerDay + dt.hour + h
    IN  [dt EXCEPT !.day = total \div HoursPerDay, !.hour = total % HoursPerDay]

\* dt + timedelta(microseconds=us), 0 <= us < 1000000
AddMicroseconds(dt, us) ==
    LET m  == dt.microsecond + us
        s  == dt.second + (m \div 1000000)
        mi == dt.minute + (s \div 60)
        h  == dt.hour + (mi \div 60)
    IN  DT(dt.day + (h \div HoursPerDay), h % HoursPerDay, mi % 60, s % 60, m % 1000000)

\* dt + timedelta(days=n)
AddDays(dt, n) == [dt EXCEPT !.day = dt.day + n]

\* start_date.replace(hour=0, minute=0, second=0, microsecond=0)
StartOfDay(dt) == DT(dt.day, 0, 0, 0, 0)

\* a variant of EndOfDay that forgets the replace() of line 98
EndOfDayNotReplaced(dt) == dt

\* end_date.replace(hour=23, minute=59, second=59, microsecond=999999)
EndOfDay(dt) == DT(dt.day, 23, 59, 59, 999999)

\* a variant of Window whose to_datetime_utc is left in local time
WindowEndNotShifted(current_datetime) ==
    [fromUtc |-> AddHours(current_datetime, 0 - TIMEZONE_OFFSET_HOURS),
     toUtc   |-> AddHours(current_datetime, 1),
     local   |-> current_datetime]

\* one element of hourly_ranges: (from_datetime_utc, to_datetime_utc, current_datetime)
Window(current_datetime) ==
    [fromUtc |-> AddHours(current_datetime, 0 - TIMEZONE_OFFSET_HOURS),
     toUtc   |-> AddHours(AddHours(current_datetime, 1), 0 - TIMEZONE_OFFSET_HOURS),
     local   |-> current_datetime]

\* the while loop of generate_hourly_ranges
RECURSIVE RangesFrom(_, _)
RangesFrom(current_datetime, end_datetime) ==
    IF DtLE(current_datetime, end_datetime)
    THEN <<Window(current_datetime)>>
             \o RangesFrom(AddHours(current_datetime, 1), end_datetime)
    ELSE <<>>

\* a variant of generate_hourly_ranges that puts a reversed range in order
generate_hourly_ranges_ordered(start_date, end_date) ==
    IF DtLE(start_date, end_date)
    THEN RangesFrom(StartOfDay(start_date), EndOfDay(end_date))
    ELSE RangesFrom(StartOfDay(end_date), EndOfDay(start_date))

generate_hourly_ranges(start_date, end_date) ==
    RangesFrom(StartOfDay(start_date), EndOfDay(end_date))

(***************************************************************************)
(* JSON values as json.loads / response.json() returns them.  Every value  *)
(* is a record of one shape: t is the Python type, n the number, s the     *)
(* string, items the elements of a list, members the key/value pairs of a  *)
(* dict in document order.                                                 *)
(***************************************************************************)
JNull == [t |-> "null", n |-> 0, s |-> "", items |-> <<>>, members |-> <<>>]

JNum(x) == [t |-> "num", n |-> x, s |-> "", items |-> <<>>, members |-> <<>>]

JStr(x) == [t |-> "str", n |-> 0, s |-> x, items |-> <<>>, members |-> <<>>]

JList(xs) == [t |-> "list", n |-> 0, s |-> "", items |-> xs, members |-> <<>>]

JDict(ms) == [t |-> "dict", n |-> 0, s |-> "", items |-> <<>>, members |-> ms]

KV(k, v) == [k |-> k, v |-> v]

\* a variant of Truthy under which only null is false
TruthyUnlessNull(j) == j.t # "null"

\* Python truthiness: `if data:` / `if not data:`
Truthy(j) ==
    CASE j.t = "null" -> FALSE
      [] j.t = "num"  -> j.n # 0
      [] j.t = "str"  -> j.s # ""
      [] j.t = "list" -> Len(j.items) > 0
      [] j.t = "dict" -> Len(j.members) > 0

\* `key in d`
HasKey(d, key) == \E i \in 1..Len(d.members) : d.members[i].k = key

\* d.get(key, default): the last member carrying the key (json.loads keeps
\* the last of duplicate keys)
DictGet(d, key, default) ==
    IF HasKey(d, key)
    THEN LET last == CHOOSE i \in 1..Len(d.members) :
                         /\ d.members[i].k = key
                         /\ \A j \in (i+1)..Len(d.members) : d.members[j].k # key
         IN  d.members[last].v
    ELSE default

\* isinstance(x, dict)
IsDict(j) == j.t = "dict"

IsList(j) == j.t = "list"

(***************************************************************************)
(* save_to_csv_hourly, first half: the flattening of a payload             *)
(***************************************************************************)
\* the text csv.DictWriter writes for a value: None is the empty field, a
\* number its digits, a string itself, anything else its repr
Cell(j) ==
    CASE j.t = "null" -> [num |-> FALSE, n |-> 0, s |-> ""]
      [] j.t = "num"  -> [num |-> TRUE, n |-> j.n, s |-> ""]
      [] j.t = "str"  -> [num |-> FALSE, n |-> 0, s |-> j.s]
      [] OTHER        -> [num |-> FALSE, n |-> 0, s |-> "<repr>"]

\* `for metric in metrics:` raises TypeError when metrics is not iterable
Iterable(j) == j.t \in {"list", "str", "dict"}

\* the elements the for loop visits: the items of a list, the characters of
\* a string, the keys of a dict
IterItems(j) ==
    CASE j.t = "list" -> j.items
      [] j.t = "str"  -> IF j.s = "" THEN <<>> ELSE <<JStr("c")>>
      [] j.t = "dict" -> [i \in 1..Len(j.members) |-> JStr(j.members[i].k)]
      [] OTHER        -> <<>>

\* metrics_dict[metric_id] = ... raises TypeError on an unhashable key
Hashable(j) == j.t \notin {"list", "dict"}

\* the body of `for metric in metrics:` raises on this element
MetricRaises(metric) ==
    \/ ~IsDict(metric)
    \/ ~Hashable(DictGet(metric, "metricId", JStr("")))

\* lines 156-169 raise for this entry (AttributeError / TypeError)
EntryRaises(record) ==
    LET flow_details == DictGet(record, "flowDetails", JDict(<<>>))
        metrics      == DictGet(record, "metrics", JList(<<>>))
    IN  \/ ~IsDict(flow_details)
        \/ ~Iterable(metrics)
        \/ \E i \in 1..Len(IterItems(metrics)) : MetricRaises(IterItems(metrics)[i])

\* a variant of MetricsGet in which the first pair of a metricId wins
MetricsGetFirst(metrics, metric_name) ==
    LET ms   == IterItems(metrics)
        hits == {i \in 1..Len(ms) : DictGet(ms[i], "metricId", JStr("")) = JStr(metric_name)}
    IN  IF hits = {}
        THEN JNum(0)
        ELSE LET first == CHOOSE i \in hits : \A j \in hits : i <= j
             IN  DictGet(ms[first], "value", JNum(0))

\* metrics_dict.get(metric_name, 0) after the loop of lines 165-169: the
\* value of the last pair whose metricId is metric_name
MetricsGet(metrics, metric_name) ==
    LET ms   == IterItems(metrics)
        hits == {i \in 1..Len(ms) : DictGet(ms[i], "metricId", JStr("")) = JStr(metric_name)}
    IN  IF hits = {}
        THEN JNum(0)
        ELSE LET last == CHOOSE i \in hits : \A j \in hits : j <= i
             IN  DictGet(ms[last], "value", JNum(0))

\* flat_record of lines 172-186
\* a variant of FlatRecord that dates the record by the wall clock
FlatRecordAtWallClock(record, collection_datetime, clock) ==
    LET flow_details == DictGet(record, "flowDetails", JDict(<<>>))
        metrics      == DictGet(record, "metrics", JList(<<>>))
    IN  [kind                   |-> "row",
         datetime               |-> [clock EXCEPT !.microsecond = 0],
         date                   |-> clock.day,
         hour                   |-> clock.hour,
         collection_timestamp   |-> clock,
         flow_id                |-> Cell(DictGet(flow_details, "flowId", JStr("unknown"))),
         flow_name              |-> Cell(DictGet(flow_details, "flowName", JStr(""))),
         flow_state             |-> Cell(DictGet(flow_details, "flowState", JStr(""))),
         total_exchanges        |-> Cell(MetricsGet(metrics, "total-exchanges")),
         successful_exchanges   |-> Cell(MetricsGet(metrics, "successful-exchanges")),
         failed_exchanges       |-> Cell(MetricsGet(metrics, "failed-exchanges")),
         inflight_exchanges     |-> Cell(MetricsGet(metrics, "inflight-exchanges")),
         avg_response_time_ms   |-> Cell(MetricsGet(metrics, "avg-response-time-millis")),
         avg_processing_time_ms |-> Cell(MetricsGet(metrics, "avg-processing-time-millis"))]

FlatRecord(record, collection_datetime, clock) ==
    LET flow_details == DictGet(record, "flowDetails", JDict(<<>>))
        metrics      == DictGet(record, "metrics", JList(<<>>))
    IN  [kind                   |-> "row",
         datetime               |-> [collection_datetime EXCEPT !.microsecond = 0],
         date                   |-> collection_datetime.day,
         hour                   |-> collection_datetime.hour,
         collection_timestamp   |-> clock,
         flow_id                |-> Cell(DictGet(flow_details, "flowId", JStr("unknown"))),
         flow_name              |-> Cell(DictGet(flow_details, "flowName", JStr(""))),
         flow_state             |-> Cell(DictGet(flow_details, "flowState", JStr(""))),
         total_exchanges        |-> Cell(MetricsGet(metrics, "total-exchanges")),
         successful_exchanges   |-> Cell(MetricsGet(metrics, "successful-exchanges")),
         failed_exchanges       |-> Cell(MetricsGet(metrics, "failed-exchanges")),
         inflight_exchanges     |-> Cell(MetricsGet(metrics, "inflight-exchanges")),
         avg_response_time_ms   |-> Cell(MetricsGet(metrics, "avg-response-time-millis")),
         avg_processing_time_ms |-> Cell(MetricsGet(metrics, "avg-processing-time-millis"))]

\* a variant of Records that takes lists only
RecordsListOnly(data) ==
    CASE IsList(data) -> data.items
      [] OTHER        -> <<>>

\* a variant of Records that walks a list from its end
RecordsReversed(data) ==
    CASE IsDict(data) -> <<data>>
      [] IsList(data) -> [k \in 1..Len(data.items) |-> data.items[Len(data.items) + 1 - k]]
      [] OTHER        -> <<>>

\* lines 142-148: the list of entries, or the early return
Records(data) ==
    CASE IsDict(data) -> <<data>>
      [] IsList(data) -> data.items
      [] OTHER        -> <<>>

\* the loop of lines 152-188 raises: some dict entry makes it raise
FlattenRaises(data) ==
    \E i \in 1..Len(Records(data)) :
        IsDict(Records(data)[i]) /\ EntryRaises(Records(data)[i])

\* flattened_records of lines 151-188, non-dict entries skipped
RECURSIVE FlattenFrom(_, _, _)
FlattenFrom(records, collection_datetime, clock) ==
    IF records = <<>>
    THEN <<>>
    ELSE (IF IsDict(Head(records))
          THEN <<FlatRecord(Head(records), collection_datetime, clock)>>
          ELSE <<>>)
         \o FlattenFrom(Tail(records), collection_datetime, clock)

Flatten(data, collection_datetime, clock) ==
    FlattenFrom(Records(data), collection_datetime, clock)

(***************************************************************************)
(* The payloads the remote API answers with.  A payload is named in the    *)
(* state and decoded by Json.                                              *)
(***************************************************************************)
Metric(id, value) == JDict(<<KV("metricId", JStr(id)), KV("value", JNum(value))>>)

\* the entry of the end-to-end scenario: flowId and flowState, no flowName
EntryF1 ==
    JDict(<<KV("flowDetails", JDict(<<KV("flowId", JStr("F1")),
                                      KV("flowState", JStr("started"))>>)),
            KV("metrics", JList(<<Metric("total-exchanges", 10),
                                  Metric("successful-exchanges", 7)>>))>>)

EntryF2 ==
    JDict(<<KV("flowDetails", JDict(<<KV("flowId", JStr("F2")),
                                      KV("flowName", JStr("billing")),
                                      KV("flowState", JStr("started"))>>)),
            KV("metrics", JList(<<Metric("total-exchanges", 4),
                                  Metric("cpu-load", 9),
                                  Metric("total-exchanges", 20),
                                  Metric("failed-exchanges", 1),
                                  Metric("avg-response-time-millis", 100)>>))>>)

\* an entry without flowDetails
EntryNoDetails ==
    JDict(<<KV("metrics", JList(<<Metric("total-exchanges", 3)>>))>>)

\* the entry the API holds for F2 for the last hour of the day
EntryF2Evening ==
    JDict(<<KV("flowDetails", JDict(<<KV("flowId", JStr("F2")),
                                      KV("flowName", JStr("billing")),
                                      KV("flowState", JStr("started"))>>)),
            KV("metrics", JList(<<Metric("total-exchanges", 10),
                                  Metric("avg-response-time-millis", 200)>>))>>)

EntryNullDetails ==
    JDict(<<KV("flowDetails", JNull), KV("metrics", JList(<<>>))>>)

EntryBadMetrics ==
    JDict(<<KV("flowDetails", JDict(<<KV("flowId", JStr("F1"))>>)),
            KV("metrics", JList(<<JNum(5)>>))>>)

\* payloads on which `if data:` is false
EmptyPayloads == {"null", "emptyList", "emptyDict"}

\* payloads that are truthy
DataPayloads == {"num", "obj", "list2", "mixed", "nonObj", "nullDetails", "badMetrics"}

Payloads == EmptyPayloads \cup DataPayloads

Json(p) ==
    CASE p = "null"        -> JNull
      [] p = "emptyList"   -> JList(<<>>)
      [] p = "emptyDict"   -> JDict(<<>>)
      [] p = "num"         -> JNum(5)
      [] p = "obj"         -> EntryF1
      [] p = "list2"       -> JList(<<EntryF1, EntryF2>>)
      [] p = "mixed"       -> JList(<<EntryF2, JNum(5), EntryNoDetails>>)
      [] p = "nonObj"      -> JList(<<JNum(5)>>)
      [] p = "nullDetails" -> JList(<<EntryF2, EntryNullDetails>>)
      [] p = "badMetrics"  -> JList(<<EntryBadMetrics>>)
      [] p = "errorObj"    -> JDict(<<KV("error", JStr("timeout"))>>)

\* the value of `data` when fetch_data returned None
NoData == "None"

\* the decoded value bound to `data`
DataValue(d) == IF d = NoData THEN JNull ELSE Json(d)

(***************************************************************************)
(* save_to_csv_hourly, second half: the append to the hourly file          *)
(***************************************************************************)
\* the line writer.writeheader() writes
HeaderLine == [kind |-> "header"]

NoFile == [exists |-> FALSE, lines |-> <<>>]

\* what lines 200-226 write, in order, given file_exists of line 197
LinesToWrite(file_exists, flattened_records) ==
    IF Len(flattened_records) = 0
    THEN <<>>
    ELSE (IF ~file_exists THEN <<HeaderLine>> ELSE <<>>) \o flattened_records

\* a variant of AppendAll that opens the file with mode 'w'
AppendAllTruncating(file, flattened_records) ==
    [exists |-> TRUE, lines |-> LinesToWrite(FALSE, flattened_records)]

\* a variant of AppendAll that skips a record whose window and flow the file
\* already holds
AppendAllOnce(file, flattened_records) ==
    LET held(l) == \E k \in 1..Len(file.lines) :
                       /\ file.lines[k].kind = "row"
                       /\ file.lines[k].datetime = l.datetime
                       /\ file.lines[k].flow_id = l.flow_id
    IN  [exists |-> TRUE,
         lines  |-> file.lines
                      \o SelectSeq(LinesToWrite(file.exists, flattened_records),
                                   LAMBDA l : l.kind = "header" \/ ~held(l))]

\* open(csv_file, 'a') creates the file; the with block writes every line
AppendAll(file, flattened_records) ==
    [exists |-> TRUE,
     lines  |-> file.lines \o LinesToWrite(file.exists, flattened_records)]

\* an I/O error after k lines were written; k = -1 when open itself failed
AppendPart(file, flattened_records, k) ==
    IF k < 0
    THEN file
    ELSE [exists |-> TRUE,
          lines  |-> file.lines
                       \o SubSeq(LinesToWrite(file.exists, flattened_records), 1, k)]

\* lines 137-148: save_to_csv_hourly returns [] before touching the file
SaveReturnsEarly(j) == ~Truthy(j) \/ ~(IsDict(j) \/ IsList(j))

\* a variant of CountOf that counts every payload as one record
CountOfOnePerWindow(j) == 1

\* lines 384-388: what main adds to total_records
CountOf(j) == IF IsList(j) THEN Len(j.items) ELSE 1

\* the data rows of a file
RowsOf(file) == SelectSeq(file.lines, LAMBDA l : l.kind = "row")

(***************************************************************************)
(* aggregate_to_daily                                                      *)
(***************************************************************************)
\* pd.read_csv reads an empty field as NaN
IsNaN(cell) == ~cell.num /\ cell.s = ""

\* pd.read_csv raises EmptyDataError on a file without any line
ReadRaises(file) == Len(file.lines) = 0

\* the first line names the columns, the others are the rows of df
Frame(file) == Tail(file.lines)

\* groupby raises KeyError unless the first line was the header
HasColumns(file) == file.lines[1].kind = "header"

GroupKey(r) == <<r.date, r.flow_id, r.flow_name, r.flow_state>>

\* groupby drops the rows whose key holds a NaN
Grouped(df) ==
    SelectSeq(df, LAMBDA r : ~IsNaN(r.flow_id) /\ ~IsNaN(r.flow_name) /\ ~IsNaN(r.flow_state))

GroupKeys(df) == {GroupKey(Grouped(df)[i]) : i \in 1..Len(Grouped(df))}

\* the numbers of column col in the rows of one group, NaN skipped
RECURSIVE ColumnSum(_, _, _)
ColumnSum(df, key, col) ==
    IF Len(df) = 0
    THEN 0
    ELSE (IF GroupKey(Head(df)) = key /\ Head(df)[col].num THEN Head(df)[col].n ELSE 0)
         + ColumnSum(Tail(df), key, col)

ColumnCount(df, key, col) ==
    Cardinality({i \in 1..Len(df) : GroupKey(df[i]) = key /\ df[i][col].num})

\* a variant of ColumnMean that aggregates with 'sum'
ColumnMeanAsSum(df, key, col) ==
    [sum |-> ColumnSum(df, key, col), count |-> Cardinality({key})]

\* 'mean': the sum and the count it is divided by
ColumnMean(df, key, col) ==
    [sum |-> ColumnSum(df, key, col), count |-> ColumnCount(df, key, col)]

\* a variant of DailyRow that stamps a row with the day of its data
DailyRowStampedWithDate(df, key, clock) ==
    [date                   |-> key[1],
     collection_timestamp   |-> Midnight(key[1]),
     flow_id                |-> key[2],
     flow_name              |-> key[3],
     flow_state             |-> key[4],
     total_exchanges        |-> ColumnSum(df, key, "total_exchanges"),
     successful_exchanges   |-> ColumnSum(df, key, "successful_exchanges"),
     failed_exchanges       |-> ColumnSum(df, key, "failed_exchanges"),
     inflight_exchanges     |-> ColumnMean(df, key, "inflight_exchanges"),
     avg_response_time_ms   |-> ColumnMean(df, key, "avg_response_time_ms"),
     avg_processing_time_ms |-> ColumnMean(df, key, "avg_processing_time_ms")]

DailyRow(df, key, clock) ==
    [date                   |-> key[1],
     collection_timestamp   |-> clock,
     flow_id                |-> key[2],
     flow_name              |-> key[3],
     flow_state             |-> key[4],
     total_exchanges        |-> ColumnSum(df, key, "total_exchanges"),
     successful_exchanges   |-> ColumnSum(df, key, "successful_exchanges"),
     failed_exchanges       |-> ColumnSum(df, key, "failed_exchanges"),
     inflight_exchanges     |-> ColumnMean(df, key, "inflight_exchanges"),
     avg_response_time_ms   |-> ColumnMean(df, key, "avg_response_time_ms"),
     avg_processing_time_ms |-> ColumnMean(df, key, "avg_processing_time_ms")]

\* daily_agg of lines 253-278: one row per group
DailyAgg(df, clock) == {DailyRow(df, key, clock) : key \in GroupKeys(df)}

NoDaily == [exists |-> FALSE, rows |-> {}]

\* a variant of AggregateResult that adds its rows to those of the daily file
AggregateResultAppending(hourly_file, daily_file, clock) ==
    IF ~hourly_file.exists                  THEN daily_file
    ELSE IF ReadRaises(hourly_file)         THEN daily_file
    ELSE IF Len(Frame(hourly_file)) = 0     THEN daily_file
    ELSE IF ~HasColumns(hourly_file)        THEN daily_file
    ELSE [exists |-> TRUE,
          rows   |-> daily_file.rows \cup DailyAgg(Frame(hourly_file), clock)]

\* a variant of AggregateResult that writes a daily file without rows when
\* it finds nothing to aggregate
AggregateResultWritesEmpty(hourly_file, daily_file, clock) ==
    IF ~hourly_file.exists                  THEN [exists |-> TRUE, rows |-> {}]
    ELSE IF ReadRaises(hourly_file)         THEN [exists |-> TRUE, rows |-> {}]
    ELSE IF Len(Frame(hourly_file)) = 0     THEN [exists |-> TRUE, rows |-> {}]
    ELSE IF ~HasColumns(hourly_file)        THEN daily_file
    ELSE [exists |-> TRUE, rows |-> DailyAgg(Frame(hourly_file), clock)]

\* the daily file aggregate_to_daily leaves, given the hourly file it reads
AggregateResult(hourly_file, daily_file, clock) ==
    IF ~hourly_file.exists                  THEN daily_file  \* line 238
    ELSE IF ReadRaises(hourly_file)         THEN daily_file  \* line 246 raises
    ELSE IF Len(Frame(hourly_file)) = 0     THEN daily_file  \* line 248
    ELSE IF ~HasColumns(hourly_file)        THEN daily_file  \* line 253 raises
    ELSE [exists |-> TRUE, rows |-> DailyAgg(Frame(hourly_file), clock)]

(***************************************************************************)
(* load_token                                                              *)
(***************************************************************************)
\* the value None
NONE == "None"

\* the wall clock when a run starts: in the middle of day 0 ...
Now0 == DT(0, 12, 30, 0, 0)

\* ... or just before its midnight
LateNow == DT(0, 23, 59, 59, 950000)

\* the contents token.json may have when a run starts
TokenFiles ==
    {"absent", "unreadable", "no_token", "expired", "expires_now", "valid",
     "no_expiry", "bad_expiry"}

TokenFile(name) ==
    LET tf(exists, loads, token, has_expiry, parses, expires_at) ==
            [exists |-> exists, loads |-> loads, token |-> token,
             has_expiry |-> has_expiry, parses |-> parses, expires_at |-> expires_at]
    IN  CASE name = "absent"      -> tf(FALSE, FALSE, NONE, FALSE, FALSE, Now0)
          [] name = "unreadable"  -> tf(TRUE, FALSE, NONE, FALSE, FALSE, Now0)
          [] name = "no_token"    -> tf(TRUE, TRUE, NONE, TRUE, TRUE, AddDays(Now0, 9))
          [] name = "expired"     -> tf(TRUE, TRUE, "T_FILE", TRUE, TRUE, AddDays(Now0, 0 - 1))
          [] name = "expires_now" -> tf(TRUE, TRUE, "T_FILE", TRUE, TRUE, Now0)
          [] name = "valid"       -> tf(TRUE, TRUE, "T_FILE", TRUE, TRUE, AddDays(Now0, 9))
          [] name = "no_expiry"   -> tf(TRUE, TRUE, "T_FILE", FALSE, FALSE, Now0)
          [] name = "bad_expiry"  -> tf(TRUE, TRUE, "T_FILE", TRUE, FALSE, Now0)

\* the values of the API_TOKEN environment variable
EnvTokens == {NONE, "T_ENV"}

\* lines 73-79
TokenFromEnv(env) == [token |-> env, warned |-> FALSE]

\* a variant of Expired that compares with > instead of >=
ExpiredStrictly(clock, expires_at) == ~DtLE(clock, expires_at)

\* `if datetime.now() >= expires_at:` of line 59
Expired(clock, expires_at) == DtLE(expires_at, clock)

\* a variant of ExpiredToken that returns None without the warning
ExpiredTokenSilent == [token |-> NONE, warned |-> FALSE]

\* lines 60-62: the warning is printed and None returned
ExpiredToken == [token |-> NONE, warned |-> TRUE]

\* a variant of load_token that turns to the environment when the file
\* holds no token or an expired one
load_token_env_fallback(file, env, clock) ==
    IF file.exists /\ file.loads
    THEN IF file.token = NONE
         THEN TokenFromEnv(env)
         ELSE IF file.has_expiry /\ ~file.parses
         THEN TokenFromEnv(env)
         ELSE IF file.has_expiry /\ Expired(clock, file.expires_at)
         THEN TokenFromEnv(env)
         ELSE [token |-> file.token, warned |-> FALSE]
    ELSE TokenFromEnv(env)

\* load_token: the token returned (NONE for None) and whether the
\* "Token expired" warning of line 60 was printed
load_token(file, env, clock) ==
    IF file.exists /\ file.loads
    THEN IF file.token = NONE
         THEN [token |-> NONE, warned |-> FALSE]
         ELSE IF file.has_expiry /\ ~file.parses
         THEN TokenFromEnv(env)  \* fromisoformat raised: line 70
         ELSE IF file.has_expiry /\ Expired(clock, file.expires_at)
         THEN ExpiredToken
         ELSE [token |-> file.token, warned |-> FALSE]
    ELSE TokenFromEnv(env)

(***************************************************************************)
(* The state of one run of main()                                          *)
(***************************************************************************)
VARIABLES
    pc,                 \* the statement main() is at
    now,                \* the wall clock, datetime.now()
    token_file,         \* the content of token.json
    env_token,          \* the API_TOKEN environment variable
    start_env,          \* START_DATE: {} when unset, else {day}
    end_env,            \* END_DATE
    API_TOKEN,          \* the global set at line 310
    expired_warning,    \* the warning of line 60 was printed
    error,              \* the error printed before sys.exit
    start_date,
    end_date,
    OUTPUT_CSV_HOURLY,  \* the day naming the hourly file
    OUTPUT_CSV_DAILY,   \* the day naming the daily file
    hourly_ranges,
    i,                  \* the loop index of line 374
    data,               \* the payload fetch_data returned
    total_records,
    successful_hours,
    hourly_files,       \* data/<day>_utilihive_metrics_hourly.csv, by day
    daily_files,        \* data/<day>_utilihive_metrics_daily.csv, by day
    last_fetch,         \* the arguments of the latest fetch_data call
    n_token_checks,     \* calls of load_token
    n_fetches,          \* calls of requests.get
    n_pauses,           \* calls of time.sleep
    n_appended,         \* rows this run wrote to the hourly file
    n_aggregations,     \* calls of aggregate_to_daily
    n_answers,          \* windows the API answered with a non-empty payload
    n_io_errors,        \* I/O errors raised so far
    summary,            \* the collection summary printed at the end
    daily_before        \* the daily file as aggregate_to_daily found it

vars ==
    <<pc, now, token_file, env_token, start_env, end_env, API_TOKEN,
      expired_warning, error, start_date, end_date, OUTPUT_CSV_HOURLY,
      OUTPUT_CSV_DAILY, hourly_ranges, i, data, total_records,
      successful_hours, hourly_files, daily_files, last_fetch, n_token_checks,
      n_fetches, n_pauses, n_appended, n_aggregations, n_answers, n_io_errors,
      summary, daily_before>>

\* the days START_DATE / END_DATE may name
Days == 0..MaxDay

\* the days a file name may carry: the day the run starts on and the next
FileDays == {Now0.day, Now0.day + 1}

\* the hours of a day for which the remote API holds flow data: the first
\* and the last
DataHours == {0, 23}

\* the days for which the remote API holds flow data: 2024-01-01 and the day
\* after
DataDays == {Now0.day, Now0.day + 1}

NoFetch == [called |-> FALSE, fromUtc |-> Now0, toUtc |-> Now0]

NoSummary == [printed |-> FALSE, windowsTotal |-> 0, windowsSucceeded |-> 0,
              recordsWritten |-> 0, hourly |-> 0, daily |-> 0]

\* the wall clock of an earlier run of the same day
EarlierRunClock == DT(0, 9, 0, 0, 0)

\* the hourly file an earlier run of the same day left behind: it collected
\* F2 for the first and for the last hour of day 0
EarlierRunFile ==
    [exists |-> TRUE,
     lines  |-> <<HeaderLine,
                  FlatRecord(EntryF2, DT(0, 0, 0, 0, 0), EarlierRunClock),
                  FlatRecord(EntryF2Evening, DT(0, 23, 0, 0, 0), EarlierRunClock)>>]

\* the daily file that earlier run left behind when it reached line 399
EarlierRunDaily == AggregateResult(EarlierRunFile, NoDaily, EarlierRunClock)

\* a variant of total_hours that leaves the loop one window early
all_but_the_last_hour == Len(hourly_ranges) - 1

total_hours == Len(hourly_ranges)

\* what a run starts from: the token sources, the date range and the files
\* on disk and the time of day.  One of them is varied at a time.
Inputs ==
    {[tf |-> tf, env |-> env, sd |-> {0}, ed |-> {0}, prior |-> NoFile,
      prior_daily |-> NoDaily, clock |-> Now0] :
         tf \in TokenFiles, env \in EnvTokens}
    \cup {[tf |-> "valid", env |-> NONE, sd |-> {s}, ed |-> {e}, prior |-> NoFile,
           prior_daily |-> NoDaily, clock |-> Now0] : s \in Days, e \in Days}
    \cup {[tf |-> "valid", env |-> NONE, sd |-> r[1], ed |-> r[2], prior |-> NoFile,
           prior_daily |-> NoDaily, clock |-> Now0] :
              r \in {<<{}, {}>>, <<{0}, {}>>, <<{}, {MaxDay}>>}}
    \cup {[tf |-> "valid", env |-> NONE, sd |-> {0}, ed |-> {0}, prior |-> f,
           prior_daily |-> NoDaily, clock |-> c] :
              f \in {NoFile, EarlierRunFile}, c \in {Now0, LateNow}}
    \* the earlier run ended normally: its daily file is on disk as well
    \cup {[tf |-> "valid", env |-> NONE, sd |-> {0}, ed |-> {0}, prior |-> EarlierRunFile,
           prior_daily |-> EarlierRunDaily, clock |-> Now0]}

Init ==
    \E in \in Inputs :
        /\ pc = "load_token"
        /\ now = in.clock
        /\ token_file = in.tf
        /\ env_token = in.env
        /\ start_env = in.sd
        /\ end_env = in.ed
        /\ API_TOKEN = NONE
        /\ expired_warning = FALSE
        /\ error = "none"
        /\ start_date = Now0
        /\ end_date = Now0
        /\ OUTPUT_CSV_HOURLY = Now0.day
        /\ OUTPUT_CSV_DAILY = Now0.day
        /\ hourly_ranges = <<>>
        /\ i = 0
        /\ data = NoData
        /\ total_records = 0
        /\ successful_hours = 0
        /\ hourly_files = [d \in FileDays |-> IF d = Now0.day THEN in.prior ELSE NoFile]
        /\ daily_files = [d \in FileDays |-> IF d = Now0.day THEN in.prior_daily ELSE NoDaily]
        /\ last_fetch = NoFetch
        /\ n_token_checks = 0
        /\ n_fetches = 0
        /\ n_pauses = 0
        /\ n_appended = 0
        /\ n_aggregations = 0
        /\ n_answers = 0
        /\ n_io_errors = 0
        /\ summary = NoSummary
        /\ daily_before = NoDaily

(***************************************************************************)
(* main()                                                                  *)
(***************************************************************************)
\* lines 303-328: load the token, exit with status 1 without one
LoadToken ==
    /\ pc = "load_token"
    /\ LET r == load_token(TokenFile(token_file), env_token, now)
       IN  /\ API_TOKEN' = r.token
           /\ expired_warning' = r.warned
           /\ IF r.token = NONE
              THEN error' = "no_token_found" /\ pc' = "exit1"
              ELSE error' = error /\ pc' = "dates"
    /\ n_token_checks' = n_token_checks + 1
    /\ UNCHANGED <<now, token_file, env_token, start_env, end_env, start_date,
                   end_date, OUTPUT_CSV_HOURLY, OUTPUT_CSV_DAILY, hourly_ranges,
                   i, data, total_records, successful_hours, hourly_files,
                   daily_files, last_fetch, n_fetches, n_pauses, n_appended,
                   n_aggregations, n_answers, n_io_errors, summary,
                   daily_before>>

\* a variant of DateRange that takes the days-back range whatever the
\* environment holds
DateRangeDaysBack(senv, eenv, clock) == <<AddDays(clock, 0 - DAYS_BACK), clock>>

\* lines 335-350: the range main() collects, as <<start_date, end_date>>
DateRange(senv, eenv, clock) ==
    IF senv # {} /\ eenv # {}
    THEN <<Midnight(CHOOSE d \in senv : TRUE), Midnight(CHOOSE d \in eenv : TRUE)>>
    ELSE <<AddDays(clock, 0 - DAYS_BACK), clock>>

\* lines 330-350
DetermineDates ==
    /\ pc = "dates"
    /\ start_date' = DateRange(start_env, end_env, now)[1]
    /\ end_date' = DateRange(start_env, end_env, now)[2]
    /\ pc' = "names"
    /\ UNCHANGED <<now, token_file, env_token, start_env, end_env, API_TOKEN,
                   expired_warning, error, OUTPUT_CSV_HOURLY, OUTPUT_CSV_DAILY,
                   hourly_ranges, i, data, total_records, successful_hours,
                   hourly_files, daily_files, last_fetch, n_token_checks,
                   n_fetches, n_pauses, n_appended, n_aggregations, n_answers,
                   n_io_errors, summary,
                   daily_before>>

\* lines 352-359: collection_date_str names both files
OutputNames ==
    /\ pc = "names"
    /\ OUTPUT_CSV_HOURLY' = now.day
    /\ OUTPUT_CSV_DAILY' = now.day
    /\ pc' = "ranges"
    /\ UNCHANGED <<now, token_file, env_token, start_env, end_env, API_TOKEN,
                   expired_warning, error, start_date, end_date, hourly_ranges,
                   i, data, total_records, successful_hours, hourly_files,
                   daily_files, last_fetch, n_token_checks, n_fetches, n_pauses,
                   n_appended, n_aggregations, n_answers, n_io_errors, summary,
                   daily_before>>

\* lines 361-374: the windows, the counters, and the loop entered or skipped
GenerateRanges ==
    /\ pc = "ranges"
    /\ hourly_ranges' = generate_hourly_ranges(start_date, end_date)
    /\ total_records' = 0
    /\ successful_hours' = 0
    /\ i' = 1
    /\ pc' = IF Len(hourly_ranges') > 0 THEN "fetch" ELSE "aggregate"
    /\ UNCHANGED <<now, token_file, env_token, start_env, end_env, API_TOKEN,
                   expired_warning, error, start_date, end_date,
                   OUTPUT_CSV_HOURLY, OUTPUT_CSV_DAILY, data, hourly_files,
                   daily_files, last_fetch, n_token_checks, n_fetches, n_pauses,
                   n_appended, n_aggregations, n_answers, n_io_errors, summary,
                   daily_before>>

\* the remote API holds flow data for this window; for every other window
\* its answer is the empty list
HasData(w) == w.local.hour \in DataHours /\ w.local.day \in DataDays

\* the call of line 378: what fetch_data was passed
FetchCall(w) == [called |-> TRUE, fromUtc |-> w.fromUtc, toUtc |-> w.toUtc]

\* a variant of FetchFailed that returns a description of the error
FetchFailedAsErrorObject == "errorObj"

\* what fetch_data returns when requests raised (lines 130-132)
FetchFailed == NoData

\* line 378, the request answered with status 2xx and a JSON body
FetchOk ==
    /\ pc = "fetch"
    /\ \E p \in Payloads :
        /\ p # "emptyList" => HasData(hourly_ranges[i])
        /\ p \in DataPayloads => n_answers < MaxAnswers
        /\ data' = p
        /\ n_answers' = IF p \in DataPayloads THEN n_answers + 1 ELSE n_answers
    /\ last_fetch' = FetchCall(hourly_ranges[i])
    /\ n_fetches' = n_fetches + 1
    /\ pc' = "process"
    /\ UNCHANGED <<now, token_file, env_token, start_env, end_env, API_TOKEN,
                   expired_warning, error, start_date, end_date,
                   OUTPUT_CSV_HOURLY, OUTPUT_CSV_DAILY, hourly_ranges, i,
                   total_records, successful_hours, hourly_files, daily_files,
                   n_token_checks, n_pauses, n_appended, n_aggregations,
                   n_io_errors, summary,
                   daily_before>>

\* line 378, the request failed: no connection, a status that is not 2xx,
\* or a body that is not JSON (a RequestException each)
FetchFail ==
    /\ pc = "fetch"
    /\ data' = FetchFailed
    /\ last_fetch' = FetchCall(hourly_ranges[i])
    /\ n_fetches' = n_fetches + 1
    /\ pc' = "process"
    /\ UNCHANGED <<now, token_file, env_token, start_env, end_env, API_TOKEN,
                   expired_warning, error, start_date, end_date,
                   OUTPUT_CSV_HOURLY, OUTPUT_CSV_DAILY, hourly_ranges, i,
                   total_records, successful_hours, hourly_files, daily_files,
                   n_token_checks, n_pauses, n_appended, n_aggregations,
                   n_answers, n_io_errors, summary,
                   daily_before>>

\* a variant of DataRetrieved that tests `data is not None`
DataRetrievedUnlessNone(d) == d # NoData

\* `if data:` of line 380
DataRetrieved(d) == Truthy(DataValue(d))

\* the rows among the first k lines written
RowsWritten(lines, k) == Len(SelectSeq(SubSeq(lines, 1, k), LAMBDA l : l.kind = "row"))

\* the csv_file save_to_csv_hourly is passed at line 381, recomputed from
\* the wall clock at every call
csv_file_of_today == now.day

\* the csv_file save_to_csv_hourly is passed at line 381
csv_file == OUTPUT_CSV_HOURLY

\* an exception raised inside the try of line 199 that leaves
\* save_to_csv_hourly and main
SaveErrorRaised == "crashed"

\* lines 230-231: the exception is caught and main goes on
SaveErrorCaught == "pace"

\* lines 380-391 when no I/O error is raised
Process ==
    /\ pc = "process"
    /\ LET j    == DataValue(data)
           file == hourly_files[csv_file]
           recs == Flatten(j, hourly_ranges[i].local, now)
       IN  IF ~DataRetrieved(data)
           THEN /\ pc' = "pace"
                /\ UNCHANGED <<hourly_files, total_records, successful_hours, n_appended>>
           ELSE IF SaveReturnsEarly(j)
           THEN /\ pc' = "pace"
                /\ total_records' = total_records + CountOf(j)
                /\ successful_hours' = successful_hours + 1
                /\ UNCHANGED <<hourly_files, n_appended>>
           ELSE IF FlattenRaises(j)
           THEN /\ pc' = "crashed"
                /\ UNCHANGED <<hourly_files, total_records, successful_hours, n_appended>>
           ELSE /\ pc' = "pace"
                /\ hourly_files' = [hourly_files EXCEPT ![csv_file] =
                                        AppendAll(file, recs)]
                /\ n_appended' = n_appended + Len(recs)
                /\ total_records' = total_records + CountOf(j)
                /\ successful_hours' = successful_hours + 1
    /\ UNCHANGED <<now, token_file, env_token, start_env, end_env, API_TOKEN,
                   expired_warning, error, start_date, end_date,
                   OUTPUT_CSV_HOURLY, OUTPUT_CSV_DAILY, hourly_ranges, i, data,
                   daily_files, last_fetch, n_token_checks, n_fetches, n_pauses,
                   n_aggregations, n_answers, n_io_errors, summary,
                   daily_before>>

\* lines 380-391 when open() or a write raises inside the try of line 199:
\* the exception is caught at line 230, k lines were written before it
ProcessIOError ==
    /\ pc = "process"
    /\ n_io_errors < MaxIOErrors
    /\ DataRetrieved(data)
    /\ ~SaveReturnsEarly(DataValue(data))
    /\ ~FlattenRaises(DataValue(data))
    /\ LET j     == DataValue(data)
           file  == hourly_files[csv_file]
           recs  == Flatten(j, hourly_ranges[i].local, now)
           lines == LinesToWrite(file.exists, recs)
       IN  /\ \E k \in (0 - 1)..(Len(lines) - 1) :
                /\ hourly_files' = [hourly_files EXCEPT ![csv_file] =
                                        AppendPart(file, recs, k)]
                /\ n_appended' = n_appended + RowsWritten(lines, k)
           /\ total_records' = total_records + CountOf(j)
           /\ successful_hours' = successful_hours + 1
    /\ n_io_errors' = n_io_errors + 1
    /\ pc' = SaveErrorCaught
    /\ UNCHANGED <<now, token_file, env_token, start_env, end_env, API_TOKEN,
                   expired_warning, error, start_date, end_date,
                   OUTPUT_CSV_HOURLY, OUTPUT_CSV_DAILY, hourly_ranges, i, data,
                   daily_files, last_fetch, n_token_checks, n_fetches, n_pauses,
                   n_aggregations, n_answers, summary,
                   daily_before>>

\* the wall clock after time.sleep(REQUEST_DELAY_SECONDS)
AfterSleep(clock) == AddMicroseconds(clock, REQUEST_DELAY_MICROSECONDS)

\* a variant of Delay that pauses after every request
DelayAfterEveryRequest(k, n) == k <= n

\* `if i < total_hours:` of line 394
Delay(k, n) == k < n

\* lines 393-395 and the loop header: pause unless this was the last window,
\* then go on to the next window or leave the loop.  `data` is not read
\* again before the next fetch rebinds it, so it is cleared here.
Pace ==
    /\ pc = "pace"
    /\ IF Delay(i, total_hours)
       THEN /\ n_pauses' = n_pauses + 1
            /\ now' = AfterSleep(now)
       ELSE UNCHANGED <<n_pauses, now>>
    /\ IF i < total_hours
       THEN /\ i' = i + 1
            /\ pc' = "fetch"
       ELSE /\ pc' = "aggregate"
            /\ UNCHANGED i
    /\ data' = NoData
    /\ UNCHANGED <<token_file, env_token, start_env, end_env, API_TOKEN,
                   expired_warning, error, start_date, end_date,
                   OUTPUT_CSV_HOURLY, OUTPUT_CSV_DAILY, hourly_ranges,
                   total_records, successful_hours, hourly_files, daily_files,
                   last_fetch, n_token_checks, n_fetches, n_appended,
                   n_aggregations, n_answers, n_io_errors, summary,
                   daily_before>>

\* line 399
Aggregate ==
    /\ pc = "aggregate"
    /\ daily_files' = [daily_files EXCEPT ![OUTPUT_CSV_DAILY] =
                           AggregateResult(hourly_files[OUTPUT_CSV_HOURLY], @, now)]
    /\ daily_before' = daily_files[OUTPUT_CSV_DAILY]
    /\ n_aggregations' = n_aggregations + 1
    /\ pc' = "summary"
    /\ UNCHANGED <<now, token_file, env_token, start_env, end_env, API_TOKEN,
                   expired_warning, error, start_date, end_date,
                   OUTPUT_CSV_HOURLY, OUTPUT_CSV_DAILY, hourly_ranges, i, data,
                   total_records, successful_hours, hourly_files, last_fetch,
                   n_token_checks, n_fetches, n_pauses, n_appended, n_answers,
                   n_io_errors, summary>>

\* lines 401-408
Summary ==
    /\ pc = "summary"
    /\ summary' = [printed          |-> TRUE,
                   windowsTotal     |-> total_hours,
                   windowsSucceeded |-> successful_hours,
                   recordsWritten   |-> total_records,
                   hourly           |-> OUTPUT_CSV_HOURLY,
                   daily            |-> OUTPUT_CSV_DAILY]
    /\ pc' = "done"
    /\ UNCHANGED <<now, token_file, env_token, start_env, end_env, API_TOKEN,
                   expired_warning, error, start_date, end_date,
                   OUTPUT_CSV_HOURLY, OUTPUT_CSV_DAILY, hourly_ranges, i, data,
                   total_records, successful_hours, hourly_files, daily_files,
                   last_fetch, n_token_checks, n_fetches, n_pauses, n_appended,
                   n_aggregations, n_answers, n_io_errors, daily_before>>

Next ==
    \/ LoadToken
    \/ DetermineDates
    \/ OutputNames
    \/ GenerateRanges
    \/ FetchOk
    \/ FetchFail
    \/ Process
    \/ ProcessIOError
    \/ Pace
    \/ Aggregate
    \/ Summary

Spec == Init /\ [][Next]_vars

(***************************************************************************)
(* Properties                                                              *)
(***************************************************************************)
\* the hour a datetime falls in, counted from day 0, 00:00
HourIndex(dt) == dt.day * 24 + dt.hour

\* the datetime is at the full hour
OnTheHour(dt) == dt.minute = 0 /\ dt.second = 0 /\ dt.microsecond = 0

\* hourly_ranges holds the result of generate_hourly_ranges
RangesGenerated == pc \notin {"load_token", "exit1", "dates", "names", "ranges"}

\* the inclusive number of days from start_date to end_date
DaysInclusive == end_date.day - start_date.day + 1

\* C1: for start_date <= end_date, generate_hourly_ranges returns
\* 24 * DaysInclusive windows; the local timestamps start at start_date 00:00,
\* advance by exactly one hour, end at end_date 23:00, and the UTC end of
\* each window is the UTC start of the next.
C1_WindowsTileTheRange ==
    (RangesGenerated /\ start_date.day <= end_date.day) =>
        /\ Len(hourly_ranges) = 24 * DaysInclusive
        /\ HourIndex(hourly_ranges[1].local) = 24 * start_date.day
        /\ HourIndex(hourly_ranges[Len(hourly_ranges)].local) = 24 * end_date.day + 23
        /\ \A k \in 1..Len(hourly_ranges) : OnTheHour(hourly_ranges[k].local)
        /\ \A k \in 1..(Len(hourly_ranges) - 1) :
              /\ HourIndex(hourly_ranges[k + 1].local) = HourIndex(hourly_ranges[k].local) + 1
              /\ hourly_ranges[k].toUtc = hourly_ranges[k + 1].fromUtc

\* C1 witness: the windows of a range of two days, generated from dates
\* given by the environment
C1_Witness ==
    /\ RangesGenerated
    /\ start_date.day < end_date.day
    /\ start_env # {}
    /\ Len(hourly_ranges) = 48

\* C2: every window has toUtc = fromUtc + 1 hour and fromUtc = local -
\* TIMEZONE_OFFSET_HOURS, whatever the date; the first window of day 0
\* (2024-01-01) with the offset of +1 is local day 0 00:00, from day -1
\* 23:00 UTC to day 0 00:00 UTC; and fetch_data is passed exactly the
\* window's fromUtc and toUtc.
C2_UtcBoundsOfWindows ==
    RangesGenerated =>
        /\ \A k \in 1..Len(hourly_ranges) :
              /\ HourIndex(hourly_ranges[k].toUtc) = HourIndex(hourly_ranges[k].fromUtc) + 1
              /\ HourIndex(hourly_ranges[k].fromUtc)
                     = HourIndex(hourly_ranges[k].local) - TIMEZONE_OFFSET_HOURS
              /\ OnTheHour(hourly_ranges[k].fromUtc)
              /\ OnTheHour(hourly_ranges[k].toUtc)
        /\ (start_date.day = 0 /\ start_date.day <= end_date.day /\ TIMEZONE_OFFSET_HOURS = 1) =>
              /\ hourly_ranges[1].local = DT(0, 0, 0, 0, 0)
              /\ hourly_ranges[1].fromUtc = DT(0 - 1, 23, 0, 0, 0)
              /\ hourly_ranges[1].toUtc = DT(0, 0, 0, 0, 0)
        /\ pc = "process" =>
              /\ last_fetch.called
              /\ last_fetch.fromUtc = hourly_ranges[i].fromUtc
              /\ last_fetch.toUtc = hourly_ranges[i].toUtc

\* C2 witness: the first window of day 0 was fetched from day -1, 23:00 UTC
C2_Witness ==
    /\ pc = "process"
    /\ i = 1
    /\ start_date.day = 0
    /\ last_fetch.fromUtc = DT(0 - 1, 23, 0, 0, 0)
    /\ last_fetch.toUtc = DT(0, 0, 0, 0, 0)

\* C3 (the claim as stated): when end_date < start_date the run is aborted
\* with an error before any network call, any write to the hourly file and
\* any aggregation pass; it does not complete as a run over zero windows.
C3_InvalidRangeAborts ==
    (RangesGenerated /\ end_date.day < start_date.day) =>
        /\ pc \in {"exit1", "crashed"}
        /\ n_fetches = 0
        /\ n_appended = 0
        /\ n_aggregations = 0
        /\ ~summary.printed

\* C3 as amended: when end_date < start_date, generate_hourly_ranges returns
\* no window and no error; the run makes no network call and appends
\* nothing, but it is not aborted: it runs the aggregation step once and
\* prints a summary over zero windows.
C3_InvalidRangeRunsOverZeroWindows ==
    (RangesGenerated /\ end_date.day < start_date.day) =>
        /\ Len(hourly_ranges) = 0
        /\ pc \in {"aggregate", "summary", "done"}
        /\ n_fetches = 0
        /\ ~last_fetch.called
        /\ n_appended = 0
        /\ n_aggregations = (IF pc = "aggregate" THEN 0 ELSE 1)
        /\ pc = "done" =>
              /\ summary.printed
              /\ summary.windowsTotal = 0
              /\ summary.windowsSucceeded = 0

\* C3 witness: a run over a reversed range has ended with its summary
C3_Witness ==
    /\ pc = "done"
    /\ end_date.day < start_date.day
    /\ summary.printed
    /\ n_aggregations = 1

\* the token file holds no usable token and the environment none either
NoTokenAvailable ==
    LET file == TokenFile(token_file)
    IN  /\ ~file.exists \/ ~file.loads \/ file.token = NONE
        /\ env_token = NONE

\* the token file holds a token whose expires_at is not after the start of
\* the run
TokenExpired ==
    LET file == TokenFile(token_file)
    IN  /\ file.exists /\ file.loads /\ file.token # NONE
        /\ file.has_expiry /\ file.parses
        /\ HourIndex(file.expires_at) * 60 + file.expires_at.minute
               <= HourIndex(Now0) * 60 + Now0.minute

\* no dataset of the run was touched
NothingWritten ==
    /\ n_appended = 0
    /\ \A d \in FileDays : hourly_files[d] = NoFile /\ daily_files[d] = NoDaily

\* C4: without a token, or with a token whose expires_at is not in the
\* future, the run exits with status 1 before any fetch, any append and any
\* daily dataset; the token is checked exactly once per run.
C4_NoTokenAbortsBeforeAnyWork ==
    /\ n_token_checks = (IF pc = "load_token" THEN 0 ELSE 1)
    /\ (pc # "load_token" /\ (NoTokenAvailable \/ TokenExpired)) =>
          /\ pc = "exit1"
          /\ n_fetches = 0
          /\ ~last_fetch.called
          /\ n_aggregations = 0
          /\ NothingWritten

\* C4 witness: a run stopped by a token that expires at the very moment of
\* the check
C4_Witness == pc = "exit1" /\ token_file = "expires_now" /\ n_token_checks = 1

\* C5 (the claim as stated): the error a run aborts with tells a missing
\* token from an expired one.
C5_DistinctErrors ==
    pc = "exit1" => (error = "no_token_found" <=> ~TokenExpired)

\* C5 as amended: both aborts end in the same error (load_token returned
\* None, "No authentication token found", exit status 1); the "Token
\* expired" warning is printed exactly when the file's token has expired.
C5_SameErrorDistinctWarning ==
    /\ pc = "exit1" => error = "no_token_found" /\ API_TOKEN = NONE
    /\ pc # "load_token" => (expired_warning <=> TokenExpired)

\* C5 witness: a run aborted by an expired token, after the warning
C5_Witness == pc = "exit1" /\ expired_warning /\ token_file = "expired"

\* C6: a failed fetch never aborts the loop: it leaves main() without data,
\* main() then appends nothing, leaves every hourly file as it was and stays
\* in the loop, and the loop goes on to fetch the next window.
C6_FetchFailureIsAbsorbed ==
    [][/\ FetchFail => (pc' = "process" /\ ~DataRetrieved(data') /\ i' = i)
       /\ (pc = "process" /\ ~DataRetrieved(data)) =>
              (pc' = "pace" /\ hourly_files' = hourly_files
                   /\ n_appended' = n_appended /\ i' = i)
       /\ (pc = "pace" /\ i < total_hours) => (pc' = "fetch" /\ i' = i + 1)
       /\ (pc = "pace" /\ i >= total_hours) => pc' = "aggregate"]_vars

\* C6 witness: the fetch of the last window of a day failed after no window
\* before it had delivered anything
C6_Witness ==
    /\ pc = "process"
    /\ data = NoData
    /\ i = 24
    /\ n_fetches = 24
    /\ successful_hours = 0
    /\ n_appended = 0

\* C7 (the claim as stated): once the token check has passed and the range
\* is valid, no payload makes the run fail: it never ends in an uncaught
\* exception.
C7_NoPayloadAbortsTheRun ==
    (API_TOKEN # NONE /\ start_date.day <= end_date.day) => pc # "crashed"

\* C8 (the claim as stated): successful_hours counts exactly the windows
\* whose fetch did not fail, whatever the payload: it grows by one at each
\* such window and at no other, and the summary reports it together with
\* the number of generated windows.
C8_SucceededCountsEveryAnsweredWindow ==
    [][/\ (pc = "process" /\ pc' = "pace") =>
              successful_hours' = successful_hours + (IF data # NoData THEN 1 ELSE 0)
       /\ pc # "process" => successful_hours' = successful_hours \/ pc = "ranges"
       /\ summary'.printed =>
              /\ summary'.windowsSucceeded = successful_hours
              /\ summary'.windowsTotal = Len(hourly_ranges)]_vars

\* C8 as amended: successful_hours counts exactly the windows whose fetch
\* returned a non-empty payload: a failed fetch and a fetch answered with
\* null, [] or {} are both left out; the summary reports this count
\* together with the number of generated windows.
C8_SucceededCountsNonEmptyPayloads ==
    [][/\ (pc = "process" /\ pc' = "pace") =>
              successful_hours' = successful_hours + (IF data \in DataPayloads THEN 1 ELSE 0)
       /\ pc # "process" => successful_hours' = successful_hours \/ pc = "ranges"
       /\ summary'.printed =>
              /\ summary'.windowsSucceeded = successful_hours
              /\ summary'.windowsTotal = Len(hourly_ranges)]_vars

\* C8 witness: the summary of a day in which two windows delivered a
\* payload and the other fetches failed or came back empty
C8_Witness ==
    /\ summary.printed
    /\ summary.windowsTotal = 24
    /\ summary.windowsSucceeded = 2
    /\ n_fetches = 24

\* C9 (the claim as stated): the summary's recordsWritten is the number of
\* rows this run appended to the hourly file.
C9_RecordsWrittenIsRowsAppended ==
    summary.printed => summary.recordsWritten = n_appended

\* the top-level entries of a payload: the elements of a list, one for any
\* other payload
EntriesOf(p) ==
    CASE p \in {"list2", "nullDetails"} -> 2
      [] p = "mixed"                    -> 3
      [] p = "emptyList"                -> 0
      [] OTHER                          -> 1

\* the payloads all of whose entries are objects
ObjectPayloads == {"obj", "list2"}

\* C9 as amended: the summary's recordsWritten is the number of top-level
\* entries of the payloads of the counted windows (the length of a list, 1
\* for any other non-empty payload).  It is never smaller than the number of
\* rows appended, and grows by exactly the rows appended at a window whose
\* entries are all objects and whose append does not fail.
C9_RecordsWrittenCountsPayloadEntries ==
    [][/\ (pc = "process" /\ pc' = "pace") =>
              /\ total_records' = total_records
                     + (IF data \in DataPayloads THEN EntriesOf(data) ELSE 0)
              /\ n_appended' - n_appended <= total_records' - total_records
              /\ (data \in ObjectPayloads /\ n_io_errors' = n_io_errors) =>
                     n_appended' - n_appended = total_records' - total_records
       /\ pc # "process" => total_records' = total_records \/ pc = "ranges"
       /\ summary'.printed => summary'.recordsWritten = total_records]_vars

\* C9 witness: a summary that reports two records after one row was
\* appended
C9_Witness ==
    /\ summary.printed
    /\ summary.recordsWritten = 2
    /\ n_appended = 1

\* C10 (the claim as stated): a hourly file that holds a data row starts
\* with the header line and holds no other header line.
C10_HeaderExactlyOnce ==
    \A d \in FileDays :
        Len(RowsOf(hourly_files[d])) > 0 =>
            /\ hourly_files[d].lines[1].kind = "header"
            /\ \A k \in 2..Len(hourly_files[d].lines) :
                   hourly_files[d].lines[k].kind # "header"

\* s is a prefix of t
IsPrefix(s, t) == Len(s) <= Len(t) /\ SubSeq(t, 1, Len(s)) = s

\* this step is a call of save_to_csv_hourly that reached the file and
\* raised no I/O error
Appends ==
    /\ pc = "process"
    /\ pc' = "pace"
    /\ n_io_errors' = n_io_errors
    /\ data \in DataPayloads
    /\ IsDict(Json(data)) \/ IsList(Json(data))

\* the hourly file of this run
ThisHourly == hourly_files[OUTPUT_CSV_HOURLY]

\* C11: the hourly dataset is append-only.  In every step every hourly file
\* stays in existence and its lines before the step are a prefix of its
\* lines after it, in the same order; an append that raises no error leaves
\* the rows the file held followed by the rows of the batch, in batch
\* order.
C11_AppendOnly ==
    [][/\ \A d \in FileDays :
              /\ hourly_files[d].exists => hourly_files'[d].exists
              /\ IsPrefix(hourly_files[d].lines, hourly_files'[d].lines)
       /\ Appends =>
              RowsOf(hourly_files'[OUTPUT_CSV_HOURLY])
                  = RowsOf(ThisHourly) \o Flatten(Json(data), hourly_ranges[i].local, now)]_vars

\* C11 witness: two appends of this run lie in the file in append order,
\* the first hour of the day before the last
C11_Witness ==
    /\ n_appended >= 2
    /\ Len(ThisHourly.lines) = n_appended + 1
    /\ ThisHourly.lines[2].hour = 0
    /\ ThisHourly.lines[Len(ThisHourly.lines)].hour = 23

\* C12 (the claim as stated): at every window boundary the rows this run
\* appended are in the hourly file, and a file that holds rows starts with
\* its header, so that the rows can be read back.
C12_RowsReadableAtWindowBoundary ==
    pc \in {"fetch", "pace", "crashed", "aggregate"} =>
        /\ Len(RowsOf(ThisHourly)) >= n_appended
        /\ Len(RowsOf(ThisHourly)) > 0 => ThisHourly.lines[1] = HeaderLine

\* C13 (the claim as stated): a hourly file this run has appended rows to
\* holds no row of an earlier run.
C13_OneRunPerFile ==
    n_appended > 0 =>
        \A k \in 1..Len(ThisHourly.lines) :
            ThisHourly.lines[k].kind = "row" =>
                ThisHourly.lines[k].collection_timestamp # EarlierRunClock

\* the rows of a file for one window and one flow
CopiesOf(lines, window, flow) ==
    Cardinality({k \in 1..Len(lines) :
                    /\ lines[k].kind = "row"
                    /\ lines[k].datetime = window
                    /\ lines[k].flow_id = flow})

\* the flow ids of the payloads
FlowIds == {Cell(JStr("F1")), Cell(JStr("F2")), Cell(JStr("unknown"))}

\* C14: the hourly store never deduplicates.  An append adds one row for
\* every record of the batch whatever the file already holds: for every
\* flow, the rows of the window grow by the records of that flow in the
\* batch, so k collections of a window with n flows leave k*n rows.
C14_NoDeduplication ==
    [][Appends =>
          \A flow \in FlowIds :
              CopiesOf(hourly_files'[OUTPUT_CSV_HOURLY].lines, hourly_ranges[i].local, flow)
                  = CopiesOf(ThisHourly.lines, hourly_ranges[i].local, flow)
                    + CopiesOf(Flatten(Json(data), hourly_ranges[i].local, now),
                               hourly_ranges[i].local, flow)]_vars

\* C14 witness: the window of hour 0 was collected by the earlier run and
\* by this one, and the file holds F2's row of that window twice
C14_Witness ==
    /\ n_appended > 0
    /\ CopiesOf(ThisHourly.lines, DT(0, 0, 0, 0, 0), Cell(JStr("F2"))) = 2

\* the daily file of this run
ThisDaily == daily_files[OUTPUT_CSV_DAILY]

\* aggregate_to_daily has returned
Aggregated == pc \in {"summary", "done"} /\ n_aggregations = 1

\* the hourly rows that share date, flow_id, flow_name and flow_state with r
GroupOf(file, r) ==
    SelectSeq(RowsOf(file),
              LAMBDA h : /\ h.date = r.date
                         /\ h.flow_id = r.flow_id
                         /\ h.flow_name = r.flow_name
                         /\ h.flow_state = r.flow_state)

\* the values of one column of some rows, added up
RECURSIVE Total(_, _)
Total(rows, col) ==
    IF rows = <<>> THEN 0 ELSE Head(rows)[col].n + Total(Tail(rows), col)

\* m is the arithmetic mean of one column of some rows: their total divided
\* by their number
IsMeanOf(m, rows, col) == m.sum = Total(rows, col) /\ m.count = Len(rows)

\* C15: every daily row holds, for the hourly rows that share its date,
\* flow_id, flow_name and flow_state, the sums of total_exchanges,
\* successful_exchanges and failed_exchanges and the unweighted arithmetic
\* means of inflight_exchanges, avg_response_time_ms and
\* avg_processing_time_ms.
C15_DailySumsAndMeans ==
    Aggregated =>
        \A r \in ThisDaily.rows :
            LET g == GroupOf(ThisHourly, r)
            IN  /\ Len(g) > 0
                /\ r.total_exchanges = Total(g, "total_exchanges")
                /\ r.successful_exchanges = Total(g, "successful_exchanges")
                /\ r.failed_exchanges = Total(g, "failed_exchanges")
                /\ IsMeanOf(r.inflight_exchanges, g, "inflight_exchanges")
                /\ IsMeanOf(r.avg_response_time_ms, g, "avg_response_time_ms")
                /\ IsMeanOf(r.avg_processing_time_ms, g, "avg_processing_time_ms")

\* C15 witness: two hourly rows of F2 with totals 20 and 10 and response
\* times 100 and 200 gave the daily row its total 30 and its mean 300 / 2
C15_Witness ==
    /\ Aggregated
    /\ \E r \in ThisDaily.rows :
           /\ r.flow_id = Cell(JStr("F2"))
           /\ r.collection_timestamp = now
           /\ Len(GroupOf(ThisHourly, r)) = 2
           /\ r.total_exchanges = 30
           /\ r.avg_response_time_ms = [sum |-> 300, count |-> 2]

\* the pass found a hourly file with its header and at least one more line,
\* and so reached to_csv
PassWrote ==
    /\ Aggregated
    /\ ThisHourly.exists
    /\ Len(ThisHourly.lines) >= 2
    /\ ThisHourly.lines[1] = HeaderLine

\* the keys (date, flow_id, flow_name, flow_state) of some rows
KeysOf(rows) == {GroupKey(r) : r \in rows}

\* the rows of a file, as a set
RowSet(file) == {RowsOf(file)[k] : k \in 1..Len(RowsOf(file))}

\* C16 (the claim as stated): the daily file a pass wrote holds exactly one
\* row for every key of the hourly file, the keys with an empty flow_name or
\* flow_state included, and no other row.
C16_OneDailyRowPerKey ==
    PassWrote =>
        /\ KeysOf(ThisDaily.rows) = KeysOf(RowSet(ThisHourly))
        /\ Cardinality(ThisDaily.rows) = Cardinality(KeysOf(RowSet(ThisHourly)))

\* this pass is the second one over the hourly file the earlier run left:
\* that run's pass wrote the daily file this pass found
SecondPass ==
    /\ Aggregated
    /\ ThisHourly = EarlierRunFile
    /\ daily_before = EarlierRunDaily

\* a daily row without its collection_timestamp
Unstamped(r) == [r EXCEPT !.collection_timestamp = Now0]

\* C17 (the claim as stated): a second pass over an unchanged hourly file
\* leaves the daily file as the first pass wrote it, collection_timestamp
\* included.
C17_SecondPassIdentical ==
    SecondPass => ThisDaily = daily_before

\* C17 as amended: a second pass over an unchanged hourly file writes the
\* same rows in every column but collection_timestamp, which holds the time
\* of the pass that wrote the row.
C17_SecondPassIdenticalButTimestamp ==
    SecondPass =>
        /\ ThisDaily.exists
        /\ {Unstamped(r) : r \in ThisDaily.rows} = {Unstamped(r) : r \in daily_before.rows}
        /\ Cardinality(ThisDaily.rows) = Cardinality(daily_before.rows)
        /\ \A r \in ThisDaily.rows : r.collection_timestamp = now
        /\ \A r \in daily_before.rows : r.collection_timestamp = EarlierRunClock

\* C17 witness: the second pass has written F2's daily row a second time
C17_Witness ==
    /\ SecondPass
    /\ pc = "done"
    /\ \E r \in ThisDaily.rows : r.flow_id = Cell(JStr("F2")) /\ r.total_exchanges = 30

\* C18: a pass that writes the daily file replaces it.  The rows it leaves
\* are those computed from the hourly file at the time of the pass,
\* whatever the daily file held before: every row carries the time of this
\* pass and the key of some hourly row, and no row of the file as the pass
\* found it is left.
C18_DailyReplaced ==
    PassWrote =>
        /\ ThisDaily = [exists |-> TRUE, rows |-> DailyAgg(Frame(ThisHourly), now)]
        /\ \A r \in ThisDaily.rows :
               /\ r.collection_timestamp = now
               /\ GroupKey(r) \in KeysOf(RowSet(ThisHourly))
        /\ ThisDaily.rows \cap daily_before.rows = {}

\* C18 witness: the pass found the daily file of the earlier run and a
\* hourly file that had grown since; F2's old daily row is gone and a row
\* computed from three hourly rows is in its place
C18_Witness ==
    /\ PassWrote
    /\ daily_before = EarlierRunDaily
    /\ n_appended > 0
    /\ \E r \in ThisDaily.rows :
           r.flow_id = Cell(JStr("F2")) /\ Len(GroupOf(ThisHourly, r)) = 3

\* C19: when the hourly file is missing or holds no row at aggregation
\* time, the pass leaves the daily files and the hourly files as they are
\* and the run goes on to print its summary.
C19_NothingToAggregate ==
    [][/\ (pc = "aggregate" /\ Len(RowsOf(ThisHourly)) = 0) =>
              /\ daily_files' = daily_files
              /\ hourly_files' = hourly_files
              /\ n_aggregations' = n_aggregations + 1
              /\ pc' = "summary"
       /\ pc = "summary" => summary'.printed /\ pc' = "done"]_vars

\* C19 witness: a run whose hourly file was created without a line has
\* ended with its summary and without a daily file
C19_Witness ==
    /\ pc = "done"
    /\ summary.printed
    /\ n_aggregations = 1
    /\ ThisHourly.exists
    /\ ThisHourly.lines = <<>>
    /\ ~ThisDaily.exists

DayOf(env) == CHOOSE d \in env : TRUE

\* C21: with START_DATE and END_DATE both given, the range is exactly the one
\* they name and the windows are those of that range, whatever the clock
\* and DAYS_BACK; otherwise the range is the clock minus DAYS_BACK days
\* through the clock, and its windows are those of DAYS_BACK + 1 days.
C21_ExplicitRangeTakesPrecedence ==
    RangesGenerated =>
        IF start_env # {} /\ end_env # {}
        THEN /\ start_date = Midnight(DayOf(start_env))
             /\ end_date = Midnight(DayOf(end_env))
             /\ DayOf(start_env) <= DayOf(end_env) =>
                    /\ Len(hourly_ranges) = 24 * (DayOf(end_env) - DayOf(start_env) + 1)
                    /\ hourly_ranges[1].local = Midnight(DayOf(start_env))
                    /\ HourIndex(hourly_ranges[Len(hourly_ranges)].local)
                           = 24 * DayOf(end_env) + 23
        ELSE /\ end_date \in {Now0, LateNow}
             /\ start_date = [end_date EXCEPT !.day = end_date.day - DAYS_BACK]
             /\ Len(hourly_ranges) = 24 * (DAYS_BACK + 1)
             /\ hourly_ranges[1].local = Midnight(end_date.day - DAYS_BACK)
             /\ HourIndex(hourly_ranges[Len(hourly_ranges)].local) = 24 * end_date.day + 23

\* C21 witness: a run started on day 0 with START_DATE = END_DATE = day 1
\* has generated the 24 windows of day 1
C21_Witness ==
    /\ RangesGenerated
    /\ start_env = {1}
    /\ end_env = {1}
    /\ now.day = 0
    /\ Len(hourly_ranges) = 24
    /\ hourly_ranges[1].local = Midnight(1)

\* the rows this run has appended lie in the file by window, and the rows
\* of one window in the order of the payload's entries
RowsInOrder ==
    LET rows  == RowsOf(ThisHourly)
        first == Len(rows) - n_appended + 1
        pairs == {<<Cell(JStr("F1")), Cell(JStr("F2"))>>,
                  <<Cell(JStr("F2")), Cell(JStr("unknown"))>>}
    IN  \A a \in first..Len(rows) : \A b \in (a + 1)..Len(rows) :
            /\ HourIndex(rows[a].datetime) <= HourIndex(rows[b].datetime)
            /\ rows[a].datetime = rows[b].datetime =>
                   <<rows[a].flow_id, rows[b].flow_id>> \in pairs

\* C22: windows are processed one at a time in increasing order.  The k-th
\* fetch of a run is the fetch of window k, issued once the payload of
\* window k - 1 has been processed; the hourly files change only while
\* window i is processed, after its fetch; the list of windows never
\* changes; and the rows the run has appended are in window-then-flow
\* order.
C22_OneWindowAtATimeInOrder ==
    [][/\ n_fetches' # n_fetches =>
              /\ pc = "fetch"
              /\ n_fetches' = n_fetches + 1
              /\ i = n_fetches + 1
              /\ data = NoData
              /\ last_fetch' = FetchCall(hourly_ranges[i])
       /\ hourly_files' # hourly_files => pc = "process" /\ n_fetches = i
       /\ pc # "ranges" => hourly_ranges' = hourly_ranges
       /\ i' # i => i' = i + 1 \/ pc = "ranges"
       /\ RowsInOrder']_vars

\* C22 witness: the run has appended the two flows of hour 0 and then a row
\* of hour 23, and a fetch in between had failed or come back empty
C22_Witness ==
    /\ n_appended = 3
    /\ Len(RowsOf(ThisHourly)) = 3
    /\ RowsOf(ThisHourly)[1].hour = 0
    /\ RowsOf(ThisHourly)[1].flow_id = Cell(JStr("F1"))
    /\ RowsOf(ThisHourly)[2].hour = 0
    /\ RowsOf(ThisHourly)[2].flow_id = Cell(JStr("F2"))
    /\ RowsOf(ThisHourly)[3].hour = 23
    /\ n_fetches = 24
    /\ successful_hours = 2

\* C23: a pause follows every fetch but the last.  While a window is being
\* fetched and processed the run has made one pause less than fetches,
\* before the next fetch as many, and a run over n >= 1 windows leaves the
\* loop after n fetches and n - 1 pauses.
C23_OnePauseBetweenFetches ==
    /\ n_fetches = 0 => n_pauses = 0
    /\ n_fetches > 0 =>
          n_pauses = (IF pc = "fetch" THEN n_fetches ELSE n_fetches - 1)
    /\ (pc \in {"aggregate", "summary", "done"} /\ Len(hourly_ranges) >= 1) =>
          /\ n_fetches = Len(hourly_ranges)
          /\ n_pauses = Len(hourly_ranges) - 1

\* C23 witness: a run over 24 windows, only one of them counted, has ended
\* after 24 fetches and 23 pauses
C23_Witness ==
    /\ pc = "done"
    /\ n_fetches = 24
    /\ n_pauses = 23
    /\ successful_hours = 1

\* what save_to_csv_hourly returns: [] at lines 137-148, else the records of
\* the loop
SavedRecords(j, collection_datetime, clock) ==
    IF SaveReturnsEarly(j) THEN <<>> ELSE Flatten(j, collection_datetime, clock)

\* C24: an empty payload (null, {}, []) flattens to no record and leaves the
\* store alone: processing it changes no hourly and no daily file, creates
\* none, appends nothing and raises nothing, and save_to_csv_hourly called
\* with it returns before it reaches the file.
C24_EmptyPayloadIsNoOp ==
    [][(pc = "process" /\ data \in EmptyPayloads) =>
          /\ SavedRecords(Json(data), hourly_ranges[i].local, now) = <<>>
          /\ SaveReturnsEarly(Json(data))
          /\ hourly_files' = hourly_files
          /\ daily_files' = daily_files
          /\ n_appended' = n_appended
          /\ n_io_errors' = n_io_errors
          /\ pc' = "pace"]_vars

\* C24 witness: the first window was answered with {} and has been
\* processed: there is still no hourly file
C24_Witness ==
    /\ pc = "pace"
    /\ data = "emptyDict"
    /\ n_fetches = 1
    /\ \A d \in FileDays : hourly_files[d] = NoFile

\* the object entries of a payload, a single object taken as a list of one
ObjectEntries(j) ==
    SelectSeq(IF IsDict(j) THEN <<j>> ELSE j.items, LAMBDA e : e.t = "dict")

\* the rows a step has added to the hourly file of the run
NewRows ==
    SubSeq(RowsOf(hourly_files'[OUTPUT_CSV_HOURLY]),
           Len(RowsOf(ThisHourly)) + 1,
           Len(RowsOf(hourly_files'[OUTPUT_CSV_HOURLY])))

\* the six metric fields of a record and the metricId each is taken from
MetricFields ==
    {<<"total_exchanges", "total-exchanges">>,
     <<"successful_exchanges", "successful-exchanges">>,
     <<"failed_exchanges", "failed-exchanges">>,
     <<"inflight_exchanges", "inflight-exchanges">>,
     <<"avg_response_time_ms", "avg-response-time-millis">>,
     <<"avg_processing_time_ms", "avg-processing-time-millis">>}

\* the value the pairs leave for one metricId when they are read from first
\* to last, each pair of that metricId replacing the value so far
RECURSIVE ValueAfter(_, _, _)
ValueAfter(pairs, metric_id, so_far) ==
    IF pairs = <<>>
    THEN so_far
    ELSE ValueAfter(Tail(pairs), metric_id,
                    IF DictGet(Head(pairs), "metricId", JStr("")) = JStr(metric_id)
                    THEN DictGet(Head(pairs), "value", JNum(0)).n
                    ELSE so_far)

\* C25: each of the six metric fields of a record written for a flow entry
\* is the value of the last metrics[] pair with the field's metricId, and 0
\* when there is none; pairs with other metricIds change nothing.
C25_MetricFieldsLastPairWins ==
    [][Appends =>
          \A k \in 1..Len(NewRows) : \A f \in MetricFields :
              /\ NewRows[k][f[1]].num
              /\ NewRows[k][f[1]].n
                     = ValueAfter(DictGet(ObjectEntries(Json(data))[k], "metrics",
                                          JList(<<>>)).items,
                                  f[2], 0)]_vars

\* C25 witness: F2's entry, with total-exchanges 4 and then 20, a cpu-load
\* pair, and no pair for three of the six metrics, is in the file as
\* written by this run
C25_Witness ==
    \E k \in 1..Len(ThisHourly.lines) :
        LET r == ThisHourly.lines[k]
        IN  /\ r.kind = "row"
            /\ r.collection_timestamp # EarlierRunClock
            /\ r.flow_id = Cell(JStr("F2"))
            /\ r.total_exchanges.n = 20
            /\ r.successful_exchanges.n = 0
            /\ r.failed_exchanges.n = 1
            /\ r.inflight_exchanges.n = 0
            /\ r.avg_response_time_ms.n = 100
            /\ r.avg_processing_time_ms.n = 0

\* a flow field of an entry as a cell, or the default when the entry has no
\* flowDetails or its flowDetails has no such field
FlowField(entry, field, default) ==
    IF HasKey(entry, "flowDetails")
    THEN LET fd == DictGet(entry, "flowDetails", JNull)
         IN  IF HasKey(fd, field)
             THEN Cell(DictGet(fd, field, JNull))
             ELSE Cell(JStr(default))
    ELSE Cell(JStr(default))

C27_RecordsCarryLocalWindowTime ==
    [][Appends =>
          \A k \in 1..Len(NewRows) :
              /\ NewRows[k].datetime = hourly_ranges[i].local
              /\ NewRows[k].date = hourly_ranges[i].local.day
              /\ NewRows[k].hour = hourly_ranges[i].local.hour
              /\ NewRows[k].hour \in 0..(HoursPerDay - 1)
              /\ HourIndex(NewRows[k].datetime)
                     = HourIndex(last_fetch.fromUtc) + TIMEZONE_OFFSET_HOURS
              /\ NewRows[k].collection_timestamp = now]_vars

\* C27 witness: rows of the window fetched for UTC 23:00 of the day before
\* are in the file as hour 0 of the local day, written at another hour
C27_Witness ==
    /\ pc = "pace"
    /\ last_fetch.fromUtc.hour = 23
    /\ n_appended >= 2
    /\ LET r == ThisHourly.lines[Len(ThisHourly.lines)]
       IN  /\ r.kind = "row"
           /\ r.collection_timestamp = now
           /\ r.hour = 0
           /\ r.date = last_fetch.fromUtc.day + 1
           /\ now.hour # 0

\* the token files that decide alone, and what they decide
FileDecides ==
    [no_token |-> NONE, expired |-> NONE, expires_now |-> NONE,
     valid |-> "T_FILE", no_expiry |-> "T_FILE"]

\* the token files that leave the decision to the environment: there is no
\* file, or loading the token from it raised an error
FileLeavesToEnv == {"absent", "unreadable", "bad_expiry"}

\* C28: a token file that exists and loads decides alone: without a token,
\* or with an expires_at that is not in the future, the run aborts whatever
\* API_TOKEN holds; the environment is used only when there is no file or
\* loading it raised, and its token is taken without any expiry check.
C28_TokenFileBeforeEnvironment ==
    pc # "load_token" =>
        /\ token_file \in FileLeavesToEnv \cup DOMAIN FileDecides
        /\ token_file \in DOMAIN FileDecides => API_TOKEN = FileDecides[token_file]
        /\ token_file \in FileLeavesToEnv =>
              API_TOKEN = env_token /\ ~expired_warning
        /\ API_TOKEN = "T_ENV" => token_file \in FileLeavesToEnv
        /\ API_TOKEN = NONE <=> pc = "exit1" /\ error = "no_token_found"
        /\ n_token_checks = 1

\* C28 witness: the run aborted on an expired token file although API_TOKEN
\* held a token
C28_Witness ==
    /\ pc = "exit1"
    /\ token_file = "expired"
    /\ env_token = "T_ENV"
    /\ API_TOKEN = NONE
    /\ n_fetches = 0

\* C29: the hourly and daily file names are set once, before the first
\* fetch, from the date the run starts on; every append and the aggregation
\* go to these two files, past midnight too, and the summary names them.
C29_OutputNamesFixedAtStart ==
    [][/\ (OUTPUT_CSV_HOURLY' # OUTPUT_CSV_HOURLY \/ OUTPUT_CSV_DAILY' # OUTPUT_CSV_DAILY)
            => pc = "names"
       /\ pc = "names" =>
             /\ n_fetches = 0
             /\ OUTPUT_CSV_HOURLY' = now.day
             /\ OUTPUT_CSV_DAILY' = now.day
       /\ n_fetches > 0 =>
             OUTPUT_CSV_HOURLY = Now0.day /\ OUTPUT_CSV_DAILY = Now0.day
       /\ \A d \in FileDays :
             /\ hourly_files'[d] # hourly_files[d] => d = OUTPUT_CSV_HOURLY
             /\ daily_files'[d] # daily_files[d] => d = OUTPUT_CSV_DAILY
       /\ n_appended' > n_appended =>
             Len(RowsOf(hourly_files'[OUTPUT_CSV_HOURLY]))
                = Len(RowsOf(ThisHourly)) + (n_appended' - n_appended)
       /\ n_aggregations' > n_aggregations =>
             daily_files'[OUTPUT_CSV_DAILY]
                = AggregateResult(ThisHourly, ThisDaily, now)
       /\ summary' # summary =>
             /\ summary'.hourly = OUTPUT_CSV_HOURLY
             /\ summary'.daily = OUTPUT_CSV_DAILY]_vars

\* C29 witness: a run that began before midnight ended the day after, its
\* rows and its daily rows in the files named after the day it began on
C29_Witness ==
    /\ pc = "done"
    /\ now.day = Now0.day + 1
    /\ n_appended > 0
    /\ summary.hourly = Now0.day
    /\ summary.daily = Now0.day
    /\ Len(RowsOf(hourly_files[Now0.day])) >= n_appended
    /\ daily_files[Now0.day] # NoDaily
    /\ hourly_files[Now0.day + 1] = NoFile
    /\ daily_files[Now0.day + 1] = NoDaily

\* C30: an I/O error while a window's rows are appended does not end the
\* run: the window is counted as succeeded, the loop goes on to the windows
\* that follow, the aggregation runs and the summary is printed.
C30_AppendErrorAbsorbed ==
    [][/\ n_io_errors' > n_io_errors =>
             /\ pc = "process"
             /\ pc' = "pace"
             /\ error' = error
             /\ successful_hours' = successful_hours + 1
             /\ total_records' = total_records + EntriesOf(data)
       /\ (n_io_errors > 0 /\ pc = "pace") =>
             /\ i < Len(hourly_ranges) => pc' = "fetch" /\ i' = i + 1
             /\ i = Len(hourly_ranges) => pc' = "aggregate"
       /\ (n_io_errors > 0 /\ pc = "aggregate") =>
             /\ n_fetches = Len(hourly_ranges)
             /\ n_aggregations' = 1
             /\ pc' = "summary"
       /\ (n_io_errors > 0 /\ summary' # summary) =>
             summary'.windowsSucceeded = successful_hours]_vars

\* C30 witness: the append of hour 0 failed and left no row; hour 23 was
\* fetched and appended after it, the aggregation ran and the summary counts
\* both windows as succeeded
C30_Witness ==
    /\ pc = "done"
    /\ n_io_errors = 1
    /\ n_fetches = Len(hourly_ranges)
    /\ n_aggregations = 1
    /\ summary.printed
    /\ summary.windowsSucceeded = 2
    /\ summary.recordsWritten = 4
    /\ n_appended = 2
    /\ \A k \in 1..Len(ThisHourly.lines) :
          LET r == ThisHourly.lines[k]
          IN  (r.kind = "row" /\ r.collection_timestamp # EarlierRunClock)
                 => r.hour = 23

====
